---- MODULE Spec2Model ----
(***************************************************************************)
(* Model of tscx (src/tscx/cli.py): run the TypeScript compiler, scan its  *)
(* captured stdout+stderr line by line and echo only the diagnostic        *)
(* records of the files / directories named on the command line.           *)
(*                                                                         *)
(* A string is a sequence of character codes (ASCII), so that the regular  *)
(* expressions, startswith, "in", strip and basename of the code are       *)
(* computed character by character.  POSIX is modelled: os.sep = "/" and   *)
(* os.path is posixpath.                                                   *)
(***************************************************************************)
EXTENDS Integers, Sequences, FiniteSets, TLC

VARIABLES
    pc,                 \* position in run_tsc_for_file / cli
    files,              \* the tuple of path arguments
    argi,               \* index of the next argument of the loop at line 147
    include_files,      \* keys of the dict include_files
    include_paths,      \* the list include_paths
    result,             \* the CompletedProcess, or None
    status,             \* the local status of run_tsc_for_file
    show_continuation,  \* the scan state
    show_all,           \* line 166
    lineno,             \* index of the next line of the loop at line 168
    echoed,             \* the lines written by click.echo(line, err=True)
    echoedAt,           \* for each echoed line, its index in the combined input
    errmsg,             \* TRUE once "Error running TypeScript compiler" is reported
    exit_code           \* the value handed to sys.exit, or None

vars == <<pc, files, argi, include_files, include_paths, result, status,
          show_continuation, show_all, lineno, echoed, echoedAt, errmsg,
          exit_code>>

\* exit_code before sys.exit is called
NotExited == 0 - 1

\* result before execute_tsc returns, and the None it returns on failure
NoResult == [is_none |-> TRUE, stdout |-> <<>>, stderr |-> <<>>,
             returncode |-> 0]

----------------------------------------------------------------------------
(* Characters                                                              *)

Printable ==
    <<" ", "!", "\"", "#", "$", "%", "&", "'", "(", ")", "*", "+", ",", "-",
      ".", "/", "0", "1", "2", "3", "4", "5", "6", "7", "8", "9", ":", ";",
      "<", "=", ">", "?", "@", "A", "B", "C", "D", "E", "F", "G", "H", "I",
      "J", "K", "L", "M", "N", "O", "P", "Q", "R", "S", "T", "U", "V", "W",
      "X", "Y", "Z", "[", "\\", "]", "^", "_", "BACKTICK", "a", "b", "c", "d", "e",
      "f", "g", "h", "i", "j", "k", "l", "m", "n", "o", "p", "q", "r", "s",
      "t", "u", "v", "w", "x", "y", "z", "{", "|", "}", "~">>

\* The code of a character; "ESC" and "\t" stand for \x1B and TAB, and
\* "BACKTICK" for the grave accent (code 96).
Code ==
    [c \in {Printable[i] : i \in 1..Len(Printable)} \cup {"ESC", "\t"} |->
        IF c = "ESC" THEN 27
        ELSE IF c = "\t" THEN 9
        ELSE 31 + (CHOOSE i \in 1..Len(Printable) : Printable[i] = c)]

Ord(c) == Code[c]

\* A string literal, written as a tuple of characters.
Str(s) == [i \in 1..Len(s) |-> Ord(s[i])]

InRange(c, lo, hi) == Ord(lo) <= c /\ c <= Ord(hi)

\* \s of the re module and the characters str.strip() removes (ASCII part)
IsSpace(c) == c \in {9, 10, 11, 12, 13, 28, 29, 30, 31, 32}

----------------------------------------------------------------------------
(* String helpers of the Python runtime                                    *)

\* str.startswith
StartsWith(s, p) == Len(p) <= Len(s) /\ SubSeq(s, 1, Len(p)) = p

\* p in s
Contains(s, p) ==
    \E i \in 0..(Len(s) - Len(p)) : SubSeq(s, i + 1, i + Len(p)) = p

\* s[n:]
Drop(s, n) == IF n >= Len(s) THEN <<>> ELSE SubSeq(s, n + 1, Len(s))

\* str.strip()
Strip(s) ==
    LET keep == {i \in 1..Len(s) : ~IsSpace(s[i])}
    IN  IF keep = {} THEN <<>>
        ELSE LET lo == CHOOSE i \in keep : \A j \in keep : i <= j
                 hi == CHOOSE i \in keep : \A j \in keep : j <= i
             IN  SubSeq(s, lo, hi)

\* os.path.basename (posixpath): what follows the last "/"
Basename(p) ==
    LET sl == {i \in 1..Len(p) : p[i] = Ord("/")}
    IN  IF sl = {} THEN p
        ELSE Drop(p, CHOOSE i \in sl : \A j \in sl : j <= i)

----------------------------------------------------------------------------
(* strip_ansi_escape_sequences, cli.py:11-26                               *)

\* Length of the longest run of characters of s, from index i, in lo..hi
RECURSIVE RunLen(_, _, _, _)
RunLen(s, i, lo, hi) ==
    IF i <= Len(s) /\ InRange(s[i], lo, hi)
    THEN 1 + RunLen(s, i + 1, lo, hi)
    ELSE 0

\* Length of the match of \x1B(?:[@-Z\\-_]|\[[0-?]*[ -/]*[@-~]) at index i of
\* s, 0 when there is none.  The three classes of the CSI alternative are
\* disjoint, so the greedy runs need no backtracking.
AnsiMatchLen(s, i) ==
    IF ~(i + 1 <= Len(s) /\ s[i] = Ord("ESC")) THEN 0
    ELSE IF InRange(s[i + 1], "@", "Z") \/ InRange(s[i + 1], "\\", "_") THEN 2
    ELSE IF s[i + 1] # Ord("[") THEN 0
    ELSE LET np == RunLen(s, i + 2, "0", "?")
             ni == RunLen(s, i + 2 + np, " ", "/")
             f  == i + 2 + np + ni
         IN  IF f <= Len(s) /\ InRange(s[f], "@", "~")
             THEN f - i + 1
             ELSE 0

RECURSIVE StripFrom(_, _)
StripFrom(s, i) ==
    IF i > Len(s) THEN <<>>
    ELSE LET n == AnsiMatchLen(s, i)
         IN  IF n > 0 THEN StripFrom(s, i + n)
             ELSE <<s[i]>> \o StripFrom(s, i + 1)

strip_ansi_escape_sequences(text) == StripFrom(text, 1)

----------------------------------------------------------------------------
(* The environment: working directory, file system, arguments, output      *)

\* os.getcwd(), cli.py:145
pwd == Str(<<"/", "w">>)

\* os.sep
sep == Str(<<"/">>)

\* a.ts, a file
ArgFile     == Str(<<"a", ".", "t", "s">>)
\* src, a directory
ArgDir      == Str(<<"s", "r", "c">>)
\* /w/src/a.ts, the file src/a.ts by its absolute path
ArgAbsFile  == Str(<<"/", "w", "/", "s", "r", "c", "/", "a", ".", "t", "s">>)
\* /w, the working directory
ArgPwd      == Str(<<"/", "w">>)
\* /w2, a directory next to the working directory
ArgSibling  == Str(<<"/", "w", "2">>)

\* The path arguments a caller may give
ArgPool == <<ArgFile, ArgDir, ArgAbsFile, ArgPwd, ArgSibling>>

\* os.path.isdir, cli.py:154: the directories that exist
isdir(f) == f \in {ArgDir, ArgPwd, ArgSibling}

\* src/a.ts:1:2 - e
LineSrc    == Str(<<"s", "r", "c", "/", "a", ".", "t", "s", ":", "1", ":", "2",
                    " ", "-", " ", "e">>)
\* ESC[96msrc/a.tsESC[0m:1:2 - e    (LineSrc as tsc --pretty colours it)
LineAnsi   == Str(<<"ESC", "[", "9", "6", "m", "s", "r", "c", "/", "a", ".",
                    "t", "s", "ESC", "[", "0", "m", ":", "1", ":", "2", " ",
                    "-", " ", "e">>)
\* lib/u.ts(3,4): e
LineLib    == Str(<<"l", "i", "b", "/", "u", ".", "t", "s", "(", "3", ",", "4",
                    ")", ":", " ", "e">>)
\* src2/a.ts(1,1): e
LineSrc2   == Str(<<"s", "r", "c", "2", "/", "a", ".", "t", "s", "(", "1", ",",
                    "1", ")", ":", " ", "e">>)
\* x/src/b.ts(5,1): e
LineNested == Str(<<"x", "/", "s", "r", "c", "/", "b", ".", "t", "s", "(", "5",
                    ",", "1", ")", ":", " ", "e">>)
\* two spaces and "d"
LineDetail == Str(<<" ", " ", "d">>)
\* ESC[7m12ESC[0m x    (a numbered source line of tsc --pretty)
LineNumbered == Str(<<"ESC", "[", "7", "m", "1", "2", "ESC", "[", "0", "m",
                      " ", "x">>)
\* the empty line
LineEmpty  == <<>>
\* (x
LineParen  == Str(<<"(", "x">>)

\* The lines the compiler may print on stdout
LinePool == {LineSrc, LineAnsi, LineLib, LineSrc2, LineNested, LineDetail,
             LineNumbered, LineEmpty, LineParen}

\* The lines the compiler may print on stderr
ErrPool == {LineDetail, LineLib}

\* The return codes of the compiler
ReturnCodes == {0, 1}

MaxArgs == 2
MaxOut == 2
MaxErr == 1

SeqsUpTo(S, n) == UNION {[1..k -> S] : k \in 0..n}

\* The argument lists: up to MaxArgs arguments of ArgPool, in its order
ArgLists ==
    {[i \in 1..Len(c) |-> ArgPool[c[i]]] :
        c \in {d \in SeqsUpTo(1..Len(ArgPool), MaxArgs) :
                  \A i \in 1..(Len(d) - 1) : d[i] < d[i + 1]}}

----------------------------------------------------------------------------
(* run_tsc_for_file, cli.py:124-204                                        *)

\* cli.py:149-152
NormalizeKey(f) ==
    IF StartsWith(f, pwd)
    THEN IF StartsWith(f, pwd \o sep)
         THEN Drop(f, Len(pwd) + 1)
         ELSE Drop(f, Len(pwd))
    ELSE f

\* Variant: the lines of stderr are scanned first
AllLines_ErrFirst(r) == r.stderr \o r.stdout

\* result.stdout.splitlines() + result.stderr.splitlines(), cli.py:168
AllLines(r) == r.stdout \o r.stderr

\* re.match(r"^\d+\s+", sanitized_line) is not None, cli.py:175
MatchesNumbered(sanitized_line) ==
    LET n == RunLen(sanitized_line, 1, "0", "9")
    IN  n >= 1 /\ n + 1 <= Len(sanitized_line)
               /\ IsSpace(sanitized_line[n + 1])

\* cli.py:173-176
IsContinuation(sanitized_line) ==
    \/ StartsWith(sanitized_line, Str(<<" ">>))
    \/ MatchesNumbered(sanitized_line)

\* Length of the longest prefix of s without ":" and "("
RECURSIVE TokenLen(_, _)
TokenLen(s, i) ==
    IF i <= Len(s) /\ s[i] # Ord(":") /\ s[i] # Ord("(")
    THEN 1 + TokenLen(s, i + 1)
    ELSE 0

\* file_match := re.match(r"^([^:(]+)", sanitized_line), cli.py:180:
\* whether it matched, and the text of group 1
FileMatch(sanitized_line) ==
    LET n == TokenLen(sanitized_line, 1)
    IN  [matched |-> n > 0, group1 |-> SubSeq(sanitized_line, 1, n)]

\* cli.py:173-180: the branch a line takes
LineKind(line) ==
    LET sanitized_line == strip_ansi_escape_sequences(line)
    IN  IF IsContinuation(sanitized_line) THEN "continuation"
        ELSE IF FileMatch(sanitized_line).matched THEN "header"
        ELSE "unmatched"

\* Variant: the file token is taken from the line as printed
FilePath_Raw(line) == Strip(FileMatch(line).group1)

\* file_path = file_match[1].strip(), cli.py:181
FilePath(line) ==
    Strip(FileMatch(strip_ansi_escape_sequences(line)).group1)

\* LineKind and FilePath, tabulated once over the lines of the pool
KindOf == [l \in LinePool |-> LineKind(l)]
PathOf == [l \in LinePool |-> FilePath(l)]

\* sanitized_line of cli.py:171, tabulated over the lines of the pool
SanitizedOf == [l \in LinePool |-> strip_ansi_escape_sequences(l)]

\* Variant: only the path-segment test of cli.py:189
PathMatches_OnlySegment(file_path, path) ==
    Contains(sep \o file_path \o sep, sep \o path \o sep)

\* Variant: only the startswith test of cli.py:189
PathMatches_NoSegment(file_path, path) == StartsWith(file_path, path)

\* cli.py:189
PathMatches(file_path, path) ==
    \/ StartsWith(file_path, path)
    \/ Contains(sep \o file_path \o sep, sep \o path \o sep)

\* in_specified_path, cli.py:185-191
InSpecifiedPath(file_path, paths) ==
    \E k \in 1..Len(paths) : PathMatches(file_path, paths[k])

\* the condition of cli.py:178
EchoesContinuation(show, all) == show \/ all

\* Variant: the else branch of cli.py:201-202 is missing
ShowAfterHeader_Sticky(shown, show) == shown \/ show

\* Variant: the assignments of cli.py:198 and cli.py:202 are swapped
ShowAfterHeader_Swapped(shown, show) == ~shown

\* show_continuation after a header line, cli.py:198 and 202
ShowAfterHeader(shown, show) == shown

\* Variant: status = 1 is set for every header line, shown or not
StatusAfterHeader_Always(shown, st) == 1

\* Variant: a hidden header sets status = 0 in the else branch
StatusAfterHeader_Reset(shown, st) == IF shown THEN 1 ELSE 0

\* status after a header line, cli.py:200
StatusAfterHeader(shown, st) == IF shown THEN 1 ELSE st

\* the condition of cli.py:197
ShowHeader(file_path, inc_files, inc_paths, all) ==
    \/ Basename(file_path) \in inc_files
    \/ InSpecifiedPath(file_path, inc_paths)
    \/ all

Init ==
    /\ pc = "normalize"
    /\ files \in ArgLists
    /\ argi = 1
    /\ include_files = {}
    /\ include_paths = <<>>
    /\ result = NoResult
    /\ status = 0
    /\ show_continuation = FALSE
    /\ show_all = FALSE
    /\ lineno = 1
    /\ echoed = <<>>
    /\ echoedAt = <<>>
    /\ errmsg = FALSE
    /\ exit_code = NotExited

\* One iteration of the loop over files, cli.py:147-157
NormalizeArg ==
    /\ pc = "normalize"
    /\ argi <= Len(files)
    /\ LET f   == files[argi]
           key == NormalizeKey(f)
       IN  IF isdir(f)
           THEN /\ include_paths' = Append(include_paths, key)
                /\ UNCHANGED include_files
           ELSE /\ include_files' = include_files \cup {key}
                /\ UNCHANGED include_paths
    /\ argi' = argi + 1
    /\ UNCHANGED <<pc, files, result, status, show_continuation, show_all,
                   lineno, echoed, echoedAt, errmsg, exit_code>>

\* result, status = execute_tsc(...), cli.py:159, when subprocess.run
\* returns: _execute_tsc_with_parameters gives (result, 0), cli.py:87-93
ExecuteTsc ==
    /\ pc = "normalize"
    /\ argi > Len(files)
    /\ \E out \in SeqsUpTo(LinePool, MaxOut), err \in SeqsUpTo(ErrPool, MaxErr),
          rc \in ReturnCodes :
            result' = [is_none |-> FALSE, stdout |-> out, stderr |-> err,
                       returncode |-> rc]
    /\ status' = 0
    /\ pc' = "executed"
    /\ UNCHANGED <<files, argi, include_files, include_paths,
                   show_continuation, show_all, lineno, echoed, echoedAt,
                   errmsg, exit_code>>

\* Variant: the except branch returns (None, 0)
ExecuteTscFails_StatusZero ==
    /\ pc = "normalize"
    /\ argi > Len(files)
    /\ errmsg' = TRUE
    /\ result' = NoResult
    /\ status' = 0
    /\ pc' = "executed"
    /\ UNCHANGED <<files, argi, include_files, include_paths,
                   show_continuation, show_all, lineno, echoed, echoedAt,
                   exit_code>>

\* result, status = execute_tsc(...), cli.py:159, when subprocess.run
\* raises: the message is reported and (None, 1) comes back, cli.py:119-121
ExecuteTscFails ==
    /\ pc = "normalize"
    /\ argi > Len(files)
    /\ errmsg' = TRUE
    /\ result' = NoResult
    /\ status' = 1
    /\ pc' = "executed"
    /\ UNCHANGED <<files, argi, include_files, include_paths,
                   show_continuation, show_all, lineno, echoed, echoedAt,
                   exit_code>>

\* the condition of cli.py:160
LaunchFailed(st, res) == st # 0 \/ res.is_none

\* return status, cli.py:160-161, and sys.exit(exit_code), cli.py:72
ReturnOnFailure ==
    /\ pc = "executed"
    /\ LaunchFailed(status, result)
    /\ exit_code' = status
    /\ pc' = "done"
    /\ UNCHANGED <<files, argi, include_files, include_paths, result, status,
                   show_continuation, show_all, lineno, echoed, echoedAt,
                   errmsg>>

\* Variant: show_all = not include_files
StartScan_FilesOnly ==
    /\ pc = "executed"
    /\ ~LaunchFailed(status, result)
    /\ status' = 0
    /\ show_continuation' = FALSE
    /\ show_all' = (include_files = {})
    /\ pc' = "scan"
    /\ UNCHANGED <<files, argi, include_files, include_paths, result, lineno,
                   echoed, echoedAt, errmsg, exit_code>>

\* Variant: show_continuation starts as True at cli.py:164
StartScan_ShowInitially ==
    /\ pc = "executed"
    /\ ~LaunchFailed(status, result)
    /\ status' = 0
    /\ show_continuation' = TRUE
    /\ show_all' = (include_files = {} /\ include_paths = <<>>)
    /\ pc' = "scan"
    /\ UNCHANGED <<files, argi, include_files, include_paths, result, lineno,
                   echoed, echoedAt, errmsg, exit_code>>

\* cli.py:163-166
StartScan ==
    /\ pc = "executed"
    /\ ~LaunchFailed(status, result)
    /\ status' = 0
    /\ show_continuation' = FALSE
    /\ show_all' = (include_files = {} /\ include_paths = <<>>)
    /\ pc' = "scan"
    /\ UNCHANGED <<files, argi, include_files, include_paths, result, lineno,
                   echoed, echoedAt, errmsg, exit_code>>

\* Variant: the sanitized line is echoed
Echo_Sanitized(line) ==
    /\ echoed' = Append(echoed, strip_ansi_escape_sequences(line))
    /\ echoedAt' = Append(echoedAt, lineno)

\* click.echo(line, err=True)
Echo(line) ==
    /\ echoed' = Append(echoed, line)
    /\ echoedAt' = Append(echoedAt, lineno)

\* The line the loop at cli.py:168 is at
CurLine == AllLines(result)[lineno]

Scanning == pc = "scan" /\ lineno <= Len(AllLines(result))

\* cli.py:173-179
ScanContinuation ==
    /\ Scanning
    /\ KindOf[CurLine] = "continuation"
    /\ IF EchoesContinuation(show_continuation, show_all)
       THEN Echo(CurLine)
       ELSE UNCHANGED <<echoed, echoedAt>>
    /\ lineno' = lineno + 1
    /\ UNCHANGED <<pc, files, argi, include_files, include_paths, result,
                   status, show_continuation, show_all, errmsg, exit_code>>

\* cli.py:180-202
ScanHeader ==
    /\ Scanning
    /\ KindOf[CurLine] = "header"
    /\ LET shown == ShowHeader(PathOf[CurLine], include_files,
                               include_paths, show_all)
       IN  /\ show_continuation' = ShowAfterHeader(shown, show_continuation)
           /\ status' = StatusAfterHeader(shown, status)
           /\ IF shown THEN Echo(CurLine) ELSE UNCHANGED <<echoed, echoedAt>>
    /\ lineno' = lineno + 1
    /\ UNCHANGED <<pc, files, argi, include_files, include_paths, result,
                   show_all, errmsg, exit_code>>

\* Neither the if at cli.py:173 nor the elif at cli.py:180 holds: the loop
\* body does nothing
ScanUnmatched ==
    /\ Scanning
    /\ KindOf[CurLine] = "unmatched"
    /\ lineno' = lineno + 1
    /\ UNCHANGED <<pc, files, argi, include_files, include_paths, result,
                   status, show_continuation, show_all, echoed, echoedAt,
                   errmsg, exit_code>>

\* Variant: the return code of the compiler is passed on when it is not 0
Return_CompilerCode ==
    /\ pc = "scan"
    /\ lineno > Len(AllLines(result))
    /\ exit_code' = IF result.returncode # 0 THEN 1 ELSE status
    /\ pc' = "done"
    /\ UNCHANGED <<files, argi, include_files, include_paths, result, status,
                   show_continuation, show_all, lineno, echoed, echoedAt,
                   errmsg>>

\* return status, cli.py:204, and sys.exit(exit_code), cli.py:72
Return ==
    /\ pc = "scan"
    /\ lineno > Len(AllLines(result))
    /\ exit_code' = status
    /\ pc' = "done"
    /\ UNCHANGED <<files, argi, include_files, include_paths, result, status,
                   show_continuation, show_all, lineno, echoed, echoedAt,
                   errmsg>>

Next ==
    \/ NormalizeArg
    \/ ExecuteTsc
    \/ ExecuteTscFails
    \/ ReturnOnFailure
    \/ StartScan
    \/ ScanContinuation
    \/ ScanHeader
    \/ ScanUnmatched
    \/ Return

Spec == Init /\ [][Next]_vars

----------------------------------------------------------------------------
(* run_tsc_for_file as a function of the arguments and the captured text   *)

\* include_paths after the loop of cli.py:147-157 over the arguments fs
RECURSIVE PathsOf(_)
PathsOf(fs) ==
    IF fs = <<>> THEN <<>>
    ELSE (IF isdir(Head(fs)) THEN <<NormalizeKey(Head(fs))>> ELSE <<>>)
             \o PathsOf(Tail(fs))

\* the keys of include_files after the loop of cli.py:147-157
FilesOf(fs) ==
    {NormalizeKey(fs[i]) : i \in {j \in 1..Len(fs) : ~isdir(fs[j])}}

\* The body of the loop of cli.py:168-202 on the scan state
\* st = [show, status, out] for the filter sets fl, pa
ScanStep(st, line, fl, pa) ==
    LET all == (fl = {} /\ pa = <<>>)
    IN  IF KindOf[line] = "continuation"
        THEN IF EchoesContinuation(st.show, all)
             THEN [st EXCEPT !.out = Append(@, line)]
             ELSE st
        ELSE IF KindOf[line] = "header"
        THEN LET shown == ShowHeader(PathOf[line], fl, pa, all)
             IN  [show   |-> ShowAfterHeader(shown, st.show),
                  status |-> StatusAfterHeader(shown, st.status),
                  out    |-> IF shown THEN Append(st.out, line) ELSE st.out]
        ELSE st

RECURSIVE ScanFrom(_, _, _, _)
ScanFrom(st, lines, fl, pa) ==
    IF lines = <<>> THEN st
    ELSE ScanFrom(ScanStep(st, Head(lines), fl, pa), Tail(lines), fl, pa)

\* cli.py:143-157 and 163-204: what is echoed and returned for the
\* arguments fs when the compiler printed lines
RunFilter(fs, lines) ==
    ScanFrom([show |-> FALSE, status |-> 0, out |-> <<>>], lines,
             FilesOf(fs), PathsOf(fs))

----------------------------------------------------------------------------
(* Vocabulary of the properties                                            *)

\* The compiler was launched and the scan has been set up
Launched == pc \in {"scan", "done"} /\ ~result.is_none

\* The run has ended after a scan
ScanDone == pc = "done" /\ ~result.is_none

Lines == AllLines(result)

\* The input lines the scan has been through
ScannedIdx == 1..(lineno - 1)

\* Line i of the input was echoed
Emitted(i) == \E k \in 1..Len(echoedAt) : echoedAt[k] = i

KindAt(i) == KindOf[Lines[i]]
PathAt(i) == PathOf[Lines[i]]

HeaderIdx == {i \in ScannedIdx : KindAt(i) = "header"}

\* c is a continuation line of the record whose header line is h
InRecord(h, c) ==
    /\ h \in HeaderIdx
    /\ c \in ScannedIdx
    /\ h < c
    /\ KindAt(c) = "continuation"
    /\ \A j \in HeaderIdx : ~(h < j /\ j < c)

Filtered == include_files # {} \/ include_paths # <<>>

FileArgs == {files[i] : i \in {j \in 1..Len(files) : ~isdir(files[j])}}

----------------------------------------------------------------------------
(* C1: with a non-empty filter set, a continuation line of a record is     *)
(* emitted if and only if the header line of that record is emitted.       *)
C1_RecordAtomicity ==
    (Launched /\ Filtered) =>
        \A h \in ScannedIdx, c \in ScannedIdx :
            InRecord(h, c) => (Emitted(c) <=> Emitted(h))

\* A filtered run that showed one record, header and continuation, and hid
\* another header
C1_Witness ==
    /\ ScanDone
    /\ Filtered
    /\ \E h \in ScannedIdx, c \in ScannedIdx :
          InRecord(h, c) /\ Emitted(h) /\ Emitted(c)
    /\ \E h \in HeaderIdx : ~Emitted(h)

(* C2: with no filter argument the emitted sequence equals the whole       *)
(* input, and the final status is 1 iff the input has a header line.       *)
C2_MatchAllEmitsInput ==
    (ScanDone /\ files = <<>>) =>
        /\ echoed = Lines
        /\ (exit_code = 1) <=> (\E i \in 1..Len(Lines) : KindAt(i) = "header")

(* C3: once the compiler has been launched, the status is 1 iff a header   *)
(* line was emitted, 0 otherwise, and it is the status the run ends with.  *)
C3_StatusIffHeaderEmitted ==
    Launched =>
        /\ status \in {0, 1}
        /\ (status = 1) <=> (\E i \in HeaderIdx : Emitted(i))
        /\ (pc = "done") => (exit_code = status)

\* A filtered run that ended with status 1, having shown one header and
\* hidden another
C3_Witness ==
    /\ ScanDone
    /\ Filtered
    /\ exit_code = 1
    /\ \E h \in HeaderIdx : Emitted(h)
    /\ \E h \in HeaderIdx : ~Emitted(h)

(* C4: a file argument is kept by its basename: a header whose fileName is *)
(* the basename of a file argument is shown, and with only file arguments  *)
(* a header whose fileName is the basename of no argument is hidden.       *)
C4_BasenameMatching ==
    Launched =>
        /\ include_files = {Basename(f) : f \in FileArgs}
        /\ \A i \in HeaderIdx :
              (Basename(PathAt(i)) \in {Basename(f) : f \in FileArgs})
                  => Emitted(i)
        /\ (files # <<>> /\ include_paths = <<>>) =>
              \A i \in HeaderIdx :
                  (Basename(PathAt(i)) \notin
                       {Basename(f) : f \in FileArgs}) => ~Emitted(i)

(* C5: with no file filter and at least one directory filter, a header is  *)
(* shown iff its filePath starts with some prefix p or "/" + p + "/" is a  *)
(* substring of "/" + filePath + "/"; src/a.ts is shown under the prefix   *)
(* src and lib/u.ts is not.                                                *)
C5_PrefixMatching ==
    (Launched /\ include_files = {} /\ include_paths # <<>>) =>
        /\ \A i \in HeaderIdx :
              Emitted(i) <=>
                  \E k \in 1..Len(include_paths) :
                      LET p  == include_paths[k]
                          fp == PathAt(i)
                      IN  \/ StartsWith(fp, p)
                          \/ Contains(sep \o fp \o sep, sep \o p \o sep)
        /\ (include_paths = <<ArgDir>>) =>
              \A i \in HeaderIdx :
                  /\ (Lines[i] = LineSrc) => Emitted(i)
                  /\ (Lines[i] = LineLib) => ~Emitted(i)

\* Under the prefix src: one header shown because its path has src as an
\* inner segment, and the header of lib/u.ts hidden
C5_Witness ==
    /\ ScanDone
    /\ include_files = {}
    /\ include_paths = <<ArgDir>>
    /\ \E i \in HeaderIdx : Lines[i] = LineNested /\ Emitted(i)
    /\ \E i \in HeaderIdx : Lines[i] = LineLib /\ ~Emitted(i)

\* p occurs in file_path as a run of whole "/"-delimited components
OccursAsComponents(file_path, p) ==
    p = <<>> \/ Contains(sep \o file_path \o sep, sep \o p \o sep)

(* C6: when the only filter is a directory d, a header is emitted iff d    *)
(* occurs in its filePath as a run of whole path components; a header of   *)
(* a file outside d is never emitted.                                      *)
C6_DirectoryOnlyWithin ==
    (Launched /\ Len(files) = 1 /\ isdir(files[1])) =>
        \A i \in HeaderIdx :
            Emitted(i) <=>
                OccursAsComponents(PathAt(i), include_paths[1])

(* C7: when starting the compiler raises, the message is reported, the     *)
(* scan is never run, nothing is echoed and the status of the tool is 1.   *)
C7_LaunchFailure ==
    /\ errmsg <=> (pc \in {"executed", "done"} /\ result.is_none)
    /\ errmsg =>
        /\ pc \in {"executed", "done"}
        /\ lineno = 1
        /\ echoed = <<>>
        /\ status = 1
        /\ (pc = "done") => (exit_code = 1)

\* The tool has exited after a failed launch, with a filter given
C7_Witness ==
    /\ errmsg
    /\ pc = "done"
    /\ exit_code = 1
    /\ files # <<>>

(* C8: the echoed lines and the final status are determined by the       *)
(* arguments and the captured text alone, whatever the compiler returned:  *)
(* return code 1 with empty output ends with status 0 and return code 0    *)
(* with a shown header ends with status 1.                                 *)
C8_StatusIgnoresReturnCode ==
    ScanDone =>
        /\ echoed = RunFilter(files, Lines).out
        /\ exit_code = RunFilter(files, Lines).status
        /\ (Lines = <<>>) => (exit_code = 0)
        /\ (\E i \in HeaderIdx : Emitted(i)) => (exit_code = 1)

\* The compiler returned 1 and printed a header, the filter hid it and the
\* tool ended with status 0
C8_Witness ==
    /\ ScanDone
    /\ result.returncode = 1
    /\ HeaderIdx # {}
    /\ exit_code = 0

(* C9: a line that is neither a continuation line nor a header line is     *)
(* emitted iff the current record is shown or matchAll holds, and leaves   *)
(* the show state and the status unchanged.                                *)
C9_UnmatchedFollowsRecord ==
    [][(Scanning /\ KindOf[CurLine] = "unmatched" /\ lineno' = lineno + 1) =>
          /\ IF show_continuation \/ show_all
             THEN echoed' = Append(echoed, CurLine)
             ELSE echoed' = echoed
          /\ show_continuation' = show_continuation
          /\ status' = status]_vars

(* C10: for an input without header lines the final status is 0, and the   *)
(* emitted sequence is the input when no filter is given and is empty when *)
(* a filter is given.                                                      *)
C10_NoHeaderInput ==
    (ScanDone /\ \A i \in 1..Len(Lines) : KindAt(i) # "header") =>
        /\ exit_code = 0
        /\ echoed = IF files = <<>> THEN Lines ELSE <<>>

(* C11: filtering the emitted output again with the same arguments emits  *)
(* exactly the same lines and returns the same status.                     *)
C11_Idempotent ==
    ScanDone =>
        /\ RunFilter(files, echoed).out = echoed
        /\ RunFilter(files, echoed).status = exit_code

\* A filtered run that hid a header and a continuation line and showed a
\* record, so that its output is a proper part of its input
C11_Witness ==
    /\ ScanDone
    /\ Filtered
    /\ \E h \in HeaderIdx : ~Emitted(h)
    /\ \E c \in ScannedIdx : KindAt(c) = "continuation" /\ Emitted(c)
    /\ Len(echoed) < Len(Lines)

\* The key of argument f when only the exact prefix pwd + separator, or
\* the whole of pwd, is stripped
AnchoredKey(f) ==
    IF StartsWith(f, pwd \o sep) THEN Drop(f, Len(pwd) + 1)
    ELSE IF f = pwd THEN <<>>
    ELSE f

\* The arguments files[1..n] that are directories (d = TRUE) or are not
ArgIdx(n, d) == {i \in 1..n : isdir(files[i]) = d}

(* C12: the key of an argument f is f without pwd + separator when f       *)
(* starts with pwd + separator, is empty when f equals pwd, and is f       *)
(* itself in every other case, also when f only begins with the            *)
(* characters of pwd.                                                      *)
C12_AnchoredNormalization ==
    /\ include_files = {AnchoredKey(files[i]) : i \in ArgIdx(argi - 1, FALSE)}
    /\ Len(include_paths) = Cardinality(ArgIdx(argi - 1, TRUE))
    /\ \A k \in 1..Len(include_paths) :
          \E i \in ArgIdx(argi - 1, TRUE) :
              /\ Cardinality({j \in ArgIdx(argi - 1, TRUE) : j <= i}) = k
              /\ include_paths[k] = AnchoredKey(files[i])

(* C13: every emitted line is an input line, unchanged (escape sequences  *)
(* included), and the emitted lines are a subsequence of the input in the  *)
(* order of the input: none is emitted twice, altered or invented.         *)
C13_EmittedIsSubsequence ==
    Launched =>
        /\ Len(echoedAt) = Len(echoed)
        /\ \A k \in 1..Len(echoed) :
              /\ echoedAt[k] \in ScannedIdx
              /\ echoed[k] = Lines[echoedAt[k]]
        /\ \A j \in 1..Len(echoed), k \in 1..Len(echoed) :
              (j < k) => (echoedAt[j] < echoedAt[k])

\* A run that echoed the coloured header with its escape sequences after
\* having passed over an earlier line
C13_Witness ==
    /\ ScanDone
    /\ \E k \in 1..Len(echoed) :
          /\ echoed[k] = LineAnsi
          /\ echoedAt[k] > k

\* The lines of the pool that read the same once sanitized
SameSanitized(l) == {m \in LinePool : SanitizedOf[m] = SanitizedOf[l]}

\* The inputs whose lines are, one by one, equal to those of ls once
\* sanitized
RECURSIVE TwinInputs(_)
TwinInputs(ls) ==
    IF ls = <<>> THEN {<<>>}
    ELSE {<<m>> \o t : m \in SameSanitized(Head(ls)),
                       t \in TwinInputs(Tail(ls))}

\* For each line of the input, whether the scan that starts in the state st
\* echoes it
RECURSIVE DecisionsFrom(_, _, _, _)
DecisionsFrom(st, lines, fl, pa) ==
    IF lines = <<>> THEN <<>>
    ELSE LET nx == ScanStep(st, Head(lines), fl, pa)
         IN  <<Len(nx.out) > Len(st.out)>>
                 \o DecisionsFrom(nx, Tail(lines), fl, pa)

\* The decisions of the run with the arguments fs on the input ls
Decisions(fs, ls) ==
    DecisionsFrom([show |-> FALSE, status |-> 0, out |-> <<>>], ls,
                  FilesOf(fs), PathsOf(fs))

(* C14: an input whose lines equal those of this run once sanitized gets,  *)
(* with the same arguments, the same decision at every line and the same   *)
(* final status, and what is emitted are its own unsanitized lines.        *)
C14_DecisionsOnSanitizedText ==
    ScanDone =>
        \A ls \in TwinInputs(Lines) :
            LET r == RunFilter(files, ls)
            IN  /\ Decisions(files, ls) = [i \in 1..Len(Lines) |-> Emitted(i)]
                /\ r.status = exit_code
                /\ r.out = [k \in 1..Len(echoedAt) |-> ls[echoedAt[k]]]

\* A filtered run that showed the coloured header and the plain one, each
\* as printed
C14_Witness ==
    /\ ScanDone
    /\ Filtered
    /\ \E j \in HeaderIdx, k \in HeaderIdx :
          /\ Lines[j] = LineAnsi /\ Emitted(j)
          /\ Lines[k] = LineSrc /\ Emitted(k)
    /\ Cardinality(TwinInputs(Lines)) > 1

(* C15: each argument processed has gone to exactly one of include_files  *)
(* and include_paths, to include_paths iff it is an existing directory,    *)
(* and show_all holds iff no argument was given.                           *)
C15_FilterSetInvariant ==
    /\ Len(include_paths) = Cardinality(ArgIdx(argi - 1, TRUE))
    /\ Cardinality(include_files) <= Cardinality(ArgIdx(argi - 1, FALSE))
    /\ (include_files = {}) <=> (ArgIdx(argi - 1, FALSE) = {})
    /\ Launched => (argi - 1 = Len(files) /\ (show_all <=> files = <<>>))

\* A launched run with a file argument and a directory argument, the
\* directory being the working directory, whose key is empty
C15_Witness ==
    /\ Launched
    /\ Cardinality(include_files) = 1
    /\ include_paths = << <<>> >>
    /\ ~show_all

(* C16: during the scan only a header line changes show_continuation,    *)
(* and sets it to whether that header is echoed; a continuation line       *)
(* changes neither show_continuation nor the status; and the status, once  *)
(* 1, stays 1.                                                             *)
C16_ScanFrame ==
    [][(pc = "scan") =>
          /\ (status = 1) => (status' = 1)
          /\ IF Scanning /\ KindOf[CurLine] = "header"
             THEN show_continuation' = (echoed' = Append(echoed, CurLine))
             ELSE show_continuation' = show_continuation
          /\ (Scanning /\ KindOf[CurLine] = "continuation") =>
                (status' = status)]_vars

\* The scan has shown a header, then a continuation line, then hidden a
\* header: the status is still 1 and the record is not shown
C16_Witness ==
    /\ pc = "scan"
    /\ lineno = 4
    /\ KindAt(1) = "header" /\ Emitted(1)
    /\ KindAt(2) = "continuation" /\ Emitted(2)
    /\ KindAt(3) = "header" /\ ~Emitted(3)
    /\ status = 1
    /\ ~show_continuation

\* Line c comes before the first header line of the combined input
BeforeFirstHeader(c) == \A h \in HeaderIdx : c < h

(* C17: when a filter is given, a continuation line that precedes the      *)
(* first header line of the combined input is never emitted.               *)
C17_InitiallyHidden ==
    (Launched /\ files # <<>>) =>
        \A c \in ScannedIdx :
            (KindAt(c) = "continuation" /\ BeforeFirstHeader(c)) => ~Emitted(c)

\* A filtered run whose input began with a continuation line, which was
\* not echoed, followed by a header that was
C17_Witness ==
    /\ ScanDone
    /\ files # <<>>
    /\ 1 \in ScannedIdx
    /\ KindAt(1) = "continuation"
    /\ ~Emitted(1)
    /\ \E h \in HeaderIdx : Emitted(h)

\* The headers among the first n lines of ls
HeadersUpTo(ls, n) == {h \in 1..n : KindOf[ls[h]] = "header"}

\* The last header among the first n lines of ls was echoed
LastHeaderEmitted(ls, n) ==
    /\ HeadersUpTo(ls, n) # {}
    /\ Emitted(CHOOSE h \in HeadersUpTo(ls, n) :
                   \A j \in HeadersUpTo(ls, n) : j <= h)

(* C18: stdout and stderr are scanned as one sequence, the lines of        *)
(* stdout first, with one scan state: every emitted line of stdout         *)
(* precedes every emitted line of stderr, and a continuation line of       *)
(* stderr is emitted iff the last header before it, in stdout as long as   *)
(* stderr has had none, was emitted (or no filter is given).               *)
C18_StdoutThenStderr ==
    Launched =>
        LET n  == Len(result.stdout)
            ls == result.stdout \o result.stderr
        IN  /\ \A k \in 1..Len(echoed) :
                  /\ echoedAt[k] <= n => echoed[k] = result.stdout[echoedAt[k]]
                  /\ echoedAt[k] > n => echoed[k] = result.stderr[echoedAt[k] - n]
            /\ \A j \in 1..Len(echoed), k \in 1..Len(echoed) :
                  (echoedAt[j] <= n /\ echoedAt[k] > n) => (j < k)
            /\ \A c \in ScannedIdx :
                  (c > n /\ KindOf[ls[c]] = "continuation") =>
                      (Emitted(c) <=> (show_all \/ LastHeaderEmitted(ls, c - 1)))

\* A filtered run in which the only header of stdout was shown and the
\* continuation line that opens stderr was echoed after it
C18_Witness ==
    /\ ScanDone
    /\ Filtered
    /\ Len(result.stdout) = 2
    /\ Len(result.stderr) = 1
    /\ KindOf[result.stdout[1]] = "header"
    /\ KindOf[result.stdout[2]] = "unmatched"
    /\ KindOf[result.stderr[1]] = "continuation"
    /\ echoed = <<result.stdout[1], result.stderr[1]>>

\* The working directory itself is among the arguments
PwdGiven == \E i \in 1..Len(files) : files[i] = ArgPwd

(* C19: the working directory given as a filter normalizes to the empty    *)
(* key, which is kept as a directory filter (show_all stays false): every  *)
(* header line is shown, the status is 1 as soon as a header was scanned,  *)
(* continuation lines before the first header are hidden, and the output   *)
(* differs from that of the run without arguments exactly when the input   *)
(* has such a line.                                                        *)
C19_PwdFilterIsAFilter ==
    (Launched /\ PwdGiven) =>
        /\ \E k \in 1..Len(include_paths) : include_paths[k] = <<>>
        /\ ~show_all
        /\ \A h \in HeaderIdx : Emitted(h)
        /\ (status = 1) <=> (HeaderIdx # {})
        /\ \A c \in ScannedIdx :
              (KindAt(c) = "continuation" /\ BeforeFirstHeader(c)) => ~Emitted(c)
        /\ ScanDone =>
              ((echoed # RunFilter(<<>>, Lines).out) <=>
               (\E c \in ScannedIdx :
                    KindAt(c) = "continuation" /\ BeforeFirstHeader(c)))

\* The run with the working directory as its only argument, on an input
\* that opens with a continuation line followed by a header outside every
\* other filter: the header is shown, the opening line is not, and the run
\* without arguments would have echoed both
C19_Witness ==
    /\ ScanDone
    /\ files = <<ArgPwd>>
    /\ include_paths = << <<>> >>
    /\ include_files = {}
    /\ Len(result.stdout) = 2
    /\ result.stdout[1] = LineDetail
    /\ result.stdout[2] = LineLib
    /\ echoed = <<LineLib>>
    /\ RunFilter(<<>>, Lines).out = <<LineDetail, LineLib>>
    /\ exit_code = 1

====
